---- MODULE Spec2Model ----
(***************************************************************************)
(* Roommate & flat finder (src/app.py): the compatibility scorer           *)
(* calculate_compatibility and the /browse-roommates ranking pipeline,     *)
(* with the registration, login and logout requests that feed them.        *)
(*                                                                         *)
(* Text is a sequence of one-character strings, so that split, strip,      *)
(* lower and the LIKE match are computed character by character.           *)
(* An optional value (a nullable column, a missing form field, an absent   *)
(* session key) is the empty tuple None or the one-element tuple Some(v).  *)
(* A float score is an exact fraction [n, d]; the value returned by        *)
(* round(x, 1) is an integer number of tenths.                             *)
(***************************************************************************)
EXTENDS Integers, Sequences, FiniteSets, TLC

VARIABLES User, Listing, session, response, threads, user1, user2, pc, result

vars == <<User, Listing, session, response, threads, user1, user2, pc, result>>

(* ------------------------------ bounds -------------------------------- *)

\* largest budget of a profile handed to the scorer
MaxBudget == 2

\* largest number of rows of the user table
MaxUsers == 3

\* largest id of a row of the listing table
MaxListings == 4

\* number of worker threads that serve requests at the same time
MaxWorkers == 2

(* ------------------------- optional values ---------------------------- *)

None == <<>>

Some(v) == <<v>>

\* Python truthiness of an optional integer: None and 0 are falsy
Truthy(x) == x # None /\ x[1] # 0

(* ------------------------------- text --------------------------------- *)

Range(s) == {s[i] : i \in DOMAIN s}

\* str.lower() on one character of the alphabet used here
LowerChar(c) ==
    CASE c = "A" -> "a"
      [] c = "B" -> "b"
      [] c = "C" -> "c"
      [] c = "D" -> "d"
      [] OTHER -> c

\* str.lower()
Lower(s) == [i \in DOMAIN s |-> LowerChar(s[i])]

RECURSIVE LStrip(_)
LStrip(s) == IF s # <<>> /\ Head(s) = " " THEN LStrip(Tail(s)) ELSE s

RECURSIVE RStrip(_)
RStrip(s) ==
    IF s # <<>> /\ s[Len(s)] = " " THEN RStrip(SubSeq(s, 1, Len(s) - 1)) ELSE s

\* str.strip()
Strip(s) == RStrip(LStrip(s))

\* index of the first comma of s, 0 when there is none
RECURSIVE FirstComma(_, _)
FirstComma(s, i) ==
    IF i > Len(s) THEN 0
    ELSE IF s[i] = "," THEN i
    ELSE FirstComma(s, i + 1)

\* str.split(','): every segment, the empty ones included
RECURSIVE Split(_)
Split(s) ==
    LET k == FirstComma(s, 1)
    IN  IF k = 0 THEN <<s>>
        ELSE <<SubSeq(s, 1, k - 1)>> \o Split(SubSeq(s, k + 1, Len(s)))

\* [x.strip() for x in text.split(',')] if text else []
StripEach(text) ==
    IF text # <<>>
    THEN LET parts == Split(text) IN [i \in DOMAIN parts |-> Strip(parts[i])]
    ELSE <<>>

\* User.get_lifestyle_list
get_lifestyle_list(self) == StripEach(self.lifestyle)

\* User.get_locations_list
get_locations_list(self) == StripEach(self.preferred_locations)

(* ----------------------------- fractions ------------------------------ *)

R(n, d) == [n |-> n, d |-> d]

RAdd(a, b) == R(a.n * b.d + b.n * a.d, a.d * b.d)

RLe(a, b) == a.n * b.d <= b.n * a.d

REq(a, b) == a.n * b.d = b.n * a.d

RMin(a, b) == IF RLe(a, b) THEN a ELSE b

RMax(a, b) == IF RLe(a, b) THEN b ELSE a

Abs(x) == IF x < 0 THEN 0 - x ELSE x

Max(x, y) == IF x >= y THEN x ELSE y

\* floor of x / y for y > 0, also when x < 0
FloorDiv(x, y) == IF x >= 0 THEN x \div y ELSE 0 - ((0 - x + y - 1) \div y)

\* truncation to a tenth instead of rounding
Round1_truncate(x) == FloorDiv(10 * x.n, x.d)

\* round(x, 1) in tenths: nearest tenth, a tie to the even one.  The float
\* sum of the code rounds to the same tenth as the exact fraction as long as
\* a shared lifestyle tag comes with a union of at most four tags, which the
\* texts used here ensure.
Round1(x) ==
    LET num == 10 * x.n
        q   == FloorDiv(num, x.d)
        rem == num - q * x.d
    IN  IF 2 * rem < x.d THEN q
        ELSE IF 2 * rem > x.d THEN q + 1
        ELSE IF q % 2 = 0 THEN q ELSE q + 1

(* ------------------------------ scorer -------------------------------- *)

\* set([loc.lower() for loc in user.get_locations_list()])
locations(user) == {Lower(loc) : loc \in Range(get_locations_list(user))}

\* set([tag.lower() for tag in user.get_lifestyle_list()])
lifestyle(user) == {Lower(tag) : tag \in Range(get_lifestyle_list(user))}

\* location block without the min(..., 5) cap
location_score_uncapped(locations1, locations2) ==
    IF locations1 # {} /\ locations2 # {}
    THEN R(Cardinality(locations1 \cap locations2) * 5, 2)
    ELSE R(0, 1)

\* what the location block adds to score
location_score(locations1, locations2) ==
    IF locations1 # {} /\ locations2 # {}
    THEN LET common_locations == locations1 \cap locations2
         IN  IF common_locations # {}
             THEN RMin(R(Cardinality(common_locations) * 5, 2), R(5, 1))
             ELSE R(0, 1)
    ELSE R(0, 1)

\* budget block without the max(0, ...) floor
budget_score_unfloored(budget1, budget2) ==
    IF Truthy(budget1) /\ Truthy(budget2)
    THEN LET budget_diff == Abs(budget1[1] - budget2[1])
             max_budget  == Max(budget1[1], budget2[1])
         IN  IF max_budget > 0
             THEN R(3 * (max_budget - budget_diff), max_budget)
             ELSE R(0, 1)
    ELSE R(0, 1)

\* budget block dividing by the first budget instead of the larger one
budget_score_by_first(budget1, budget2) ==
    IF Truthy(budget1) /\ Truthy(budget2)
    THEN LET budget_diff == Abs(budget1[1] - budget2[1])
         IN  IF budget1[1] > 0
             THEN RMax(R(0, 1), R(3 * (budget1[1] - budget_diff), budget1[1]))
             ELSE R(0, 1)
    ELSE R(0, 1)

\* what the budget block adds to score
budget_score(budget1, budget2) ==
    IF Truthy(budget1) /\ Truthy(budget2)
    THEN LET budget_diff == Abs(budget1[1] - budget2[1])
             max_budget  == Max(budget1[1], budget2[1])
         IN  IF max_budget > 0
             THEN RMax(R(0, 1), R(3 * (max_budget - budget_diff), max_budget))
             ELSE R(0, 1)
    ELSE R(0, 1)

\* lifestyle block dividing by the first set instead of the union
lifestyle_score_overlap(lifestyle1, lifestyle2) ==
    IF lifestyle1 # {} /\ lifestyle2 # {}
    THEN R(Cardinality(lifestyle1 \cap lifestyle2) * 2, Cardinality(lifestyle1))
    ELSE R(0, 1)

\* what the lifestyle block adds to score
lifestyle_score(lifestyle1, lifestyle2) ==
    IF lifestyle1 # {} /\ lifestyle2 # {}
    THEN LET common_lifestyle == lifestyle1 \cap lifestyle2
             total_lifestyle  == lifestyle1 \cup lifestyle2
         IN  IF total_lifestyle # {}
             THEN R(Cardinality(common_lifestyle) * 2, Cardinality(total_lifestyle))
             ELSE R(0, 1)
    ELSE R(0, 1)

\* the locals of calculate_compatibility at its return statement
compatibility_locals(u1, u2) ==
    LET locations1 == locations(u1)
        locations2 == locations(u2)
        lifestyle1 == lifestyle(u1)
        lifestyle2 == lifestyle(u2)
        ls == location_score(locations1, locations2)
        bs == budget_score(u1.budget, u2.budget)
        fs == lifestyle_score(lifestyle1, lifestyle2)
        score == RAdd(RAdd(ls, bs), fs)
    IN  [locations1 |-> locations1, locations2 |-> locations2,
         lifestyle1 |-> lifestyle1, lifestyle2 |-> lifestyle2,
         location_score |-> ls, budget_score |-> bs, lifestyle_score |-> fs,
         score |-> score,
         ret |-> Round1(RMin(score, R(10, 1)))]

\* calculate_compatibility(user1, user2), in tenths
calculate_compatibility(u1, u2) == compatibility_locals(u1, u2).ret

(* --------------------------- form inputs ------------------------------ *)

\* comma-delimited texts typed into the locations and lifestyle fields
FormTexts ==
    { <<>>,
      <<"a">>,
      <<"A", ",", " ", "b", " ">>,
      <<"a", ",", "b", ",", "c">>,
      <<"b", ",", "c", ",", "d">>,
      <<"b", ",">>,
      <<",", "a">>,
      <<",">> }

\* the texts as register() stores them: request.form.get(...).strip()
StoredTexts == {Strip(t) : t \in FormTexts}

\* request.form.get('budget', type=int): missing, or any integer typed
BudgetInputs == {None} \cup {Some(b) : b \in {0 - 1} \cup (0 .. MaxBudget)}

\* the profile columns of a user row that the scorer reads
Profiles ==
    [budget : BudgetInputs, preferred_locations : StoredTexts,
     lifestyle : StoredTexts]

\* the two profiles of the worked example of the documentation
ExampleA ==
    [budget |-> Some(800),
     preferred_locations |->
         <<"m", "u", "m", "b", "a", "i", ",", "p", "u", "n", "e">>,
     lifestyle |->
         <<"n", "o", "n", "-", "s", "m", "o", "k", "e", "r", ",",
           "e", "a", "r", "l", "y", "-", "r", "i", "s", "e", "r">>]

ExampleB ==
    [budget |-> Some(600),
     preferred_locations |->
         <<"p", "u", "n", "e", ",", "d", "e", "l", "h", "i">>,
     lifestyle |->
         <<"n", "o", "n", "-", "s", "m", "o", "k", "e", "r", ",",
           "n", "i", "g", "h", "t", "-", "o", "w", "l">>]

Examples == {ExampleA, ExampleB}

(* ------------------- direct calls of the scorer ----------------------- *)

NoResponse == [template |-> "none"]

\* the worker threads of the server
Workers == 1 .. MaxWorkers

\* the locals of a worker thread that serves no request
IdleFrame ==
    [pc |-> "idle", session |-> None, location |-> <<>>,
     min_budget |-> None, max_budget |-> None, current_user |-> None,
     users |-> <<>>, roommates_with_scores |-> <<>>, ret |-> NoResponse]

ScorerInit ==
    /\ User = <<>>
    /\ Listing = <<>>
    /\ session = None
    /\ response = NoResponse
    /\ threads = [w \in Workers |-> IdleFrame]
    /\ \/ user1 \in Profiles /\ user2 \in Profiles
       \/ user1 \in Examples /\ user2 \in Examples
    /\ pc = "call"
    /\ result = None

\* calculate_compatibility(user1, user2) runs to its return statement
Calculate ==
    /\ pc = "call"
    /\ result' = compatibility_locals(user1, user2)
    /\ pc' = "return"
    /\ UNCHANGED <<User, Listing, session, response, threads, user1, user2>>

ScorerNext == Calculate

ScorerSpec == ScorerInit /\ [][ScorerNext]_vars

(* ------------------------- the user table ----------------------------- *)

\* werkzeug generate_password_hash / check_password_hash: the hash is opaque
\* and matches the one password it was made from
generate_password_hash(password) == <<"hash", password>>

check_password_hash(password_hash, password) ==
    password_hash = generate_password_hash(password)

\* User.check_password
check_password(self, password) == check_password_hash(self.password_hash, password)

\* User.query.filter_by(email=email).first(): None when no row has the email
first_by_email(email) ==
    LET hits == {i \in DOMAIN User : User[i].email = email}
    IN  IF hits = {} THEN None
        ELSE Some(User[CHOOSE i \in hits : \A j \in hits : i <= j])

\* User.query.get(id)
query_get(id) ==
    LET hits == {i \in DOMAIN User : User[i].id = id}
    IN  IF hits = {} THEN None ELSE Some(User[CHOOSE i \in hits : TRUE])

\* get_current_user()
get_current_user == IF session # None THEN query_get(session[1]) ELSE None

(* ---------------------------- SQL filters ----------------------------- *)

\* SQL LIKE: % matches any run of characters, _ any one character
RECURSIVE Like(_, _)
Like(pattern, text) ==
    IF pattern = <<>> THEN text = <<>>
    ELSE IF Head(pattern) = "%"
         THEN \/ Like(Tail(pattern), text)
              \/ (text # <<>> /\ Like(pattern, Tail(text)))
    ELSE /\ text # <<>>
         /\ (Head(pattern) = "_" \/ Head(pattern) = Head(text))
         /\ Like(Tail(pattern), Tail(text))

\* column.ilike(pattern): lower(column) LIKE lower(pattern)
ilike(column, pattern) == Like(Lower(pattern), Lower(column))

\* query.order_by(User.created_at.desc()).all()
RECURSIVE order_by_created_at_desc(_)
order_by_created_at_desc(rows) ==
    IF rows = <<>> THEN <<>>
    ELSE LET m == CHOOSE i \in DOMAIN rows :
                      \A j \in DOMAIN rows :
                          \/ rows[i].created_at > rows[j].created_at
                          \/ (rows[i].created_at = rows[j].created_at /\ i <= j)
             rest == [k \in 1 .. (Len(rows) - 1) |->
                          IF k < m THEN rows[k] ELSE rows[k + 1]]
         IN  <<rows[m]>> \o order_by_created_at_desc(rest)

\* the query without the User.id != current_user.id clause
browse_query_with_self(current_user, location, min_budget, max_budget) ==
    LET Keep(u) ==
            /\ location # <<>> =>
                   ilike(u.preferred_locations, <<"%">> \o location \o <<"%">>)
            /\ Truthy(min_budget) =>
                   (u.budget # None /\ u.budget[1] >= min_budget[1])
            /\ Truthy(max_budget) =>
                   (u.budget # None /\ u.budget[1] <= max_budget[1])
    IN  order_by_created_at_desc(SelectSeq(User, Keep))

\* the query of browse_roommates: the WHERE clauses that are added and the
\* ORDER BY; a comparison with a NULL budget is not true
browse_query(current_user, location, min_budget, max_budget) ==
    LET Keep(u) ==
            /\ current_user # None => u.id # current_user[1].id
            /\ location # <<>> =>
                   ilike(u.preferred_locations, <<"%">> \o location \o <<"%">>)
            /\ Truthy(min_budget) =>
                   (u.budget # None /\ u.budget[1] >= min_budget[1])
            /\ Truthy(max_budget) =>
                   (u.budget # None /\ u.budget[1] <= max_budget[1])
    IN  order_by_created_at_desc(SelectSeq(User, Keep))

(* --------------------------- the ranking ------------------------------ *)

\* the insertion step with ties placed in front: an unstable sort
RECURSIVE insert_desc_ties_first(_, _)
insert_desc_ties_first(sorted, x) ==
    IF sorted = <<>> THEN <<x>>
    ELSE IF Head(sorted).score > x.score
         THEN <<Head(sorted)>> \o insert_desc_ties_first(Tail(sorted), x)
         ELSE <<x>> \o sorted

\* one step of the stable descending sort: x goes behind every element whose
\* score is at least its own
RECURSIVE insert_desc(_, _)
insert_desc(sorted, x) ==
    IF sorted = <<>> THEN <<x>>
    ELSE IF Head(sorted).score >= x.score
         THEN <<Head(sorted)>> \o insert_desc(Tail(sorted), x)
         ELSE <<x>> \o sorted

\* list.sort(key=lambda x: x['score'], reverse=True): stable
RECURSIVE sort_by_score_desc(_)
sort_by_score_desc(items) ==
    IF items = <<>> THEN <<>>
    ELSE insert_desc(sort_by_score_desc(SubSeq(items, 1, Len(items) - 1)),
                     items[Len(items)])

\* the scoring loop followed, logged in or not, by an ascending sort and a
\* reverse(): descending, the candidates of equal score in reversed order
rank_sort_reverse(current_user, users) ==
    LET roommates_with_scores ==
            [i \in DOMAIN users |->
                [user |-> users[i].id,
                 score |-> IF current_user # None
                           THEN calculate_compatibility(current_user[1], users[i])
                           ELSE 0]]
        reversed ==
            [i \in DOMAIN users |->
                roommates_with_scores[Len(users) + 1 - i]]
    IN  sort_by_score_desc(reversed)

\* the scoring loop of browse_roommates and the sort behind it
rank(current_user, users) ==
    LET roommates_with_scores ==
            [i \in DOMAIN users |->
                [user |-> users[i].id,
                 score |-> IF current_user # None
                           THEN calculate_compatibility(current_user[1], users[i])
                           ELSE 0]]
    IN  IF current_user # None
        THEN sort_by_score_desc(roommates_with_scores)
        ELSE roommates_with_scores

(* ------------------------ requests: inputs ---------------------------- *)

SecretPw == <<"s", "e", "c", "r", "e", "t">>

ShortPw == <<"p", "w">>

\* e-mail addresses typed into the forms; " A@" normalises to "a@"
EmailInputs ==
    { <<"a", "@">>, <<"b", "@">>, <<"c", "@">>, <<"d", "@">>,
      <<" ", "A", "@">>, <<"a">> }

\* profile fields typed into the registration form
ProfileA ==
    [budget |-> Some(2),
     preferred_locations |-> <<"A", ",", " ", "b", " ">>,
     lifestyle |-> <<"a", ",", "b", ",", "c">>]

ProfileB ==
    [budget |-> Some(1),
     preferred_locations |-> <<"a">>,
     lifestyle |-> <<"b", ",", "c", ",", "d">>]

ProfileC ==
    [budget |-> None,
     preferred_locations |-> <<"b", ",">>,
     lifestyle |-> <<>>]

Form(email, password, confirm_password, name, profile) ==
    [email |-> email, password |-> password,
     confirm_password |-> confirm_password, name |-> name, profile |-> profile]

\* the registration forms that are submitted: four that can be accepted, one
\* whose address repeats "a@", and one for each other validation error
RegisterForms ==
    { Form(<<"a", "@">>, SecretPw, SecretPw, <<"n">>, ProfileA),
      Form(<<"b", "@">>, SecretPw, SecretPw, <<"n">>, ProfileB),
      Form(<<"c", "@">>, SecretPw, SecretPw, <<" ", "n">>, ProfileC),
      Form(<<"d", "@">>, SecretPw, SecretPw, <<"n">>, ProfileB),
      Form(<<" ", "A", "@">>, SecretPw, SecretPw, <<"n">>, ProfileA),
      Form(<<"a">>, SecretPw, SecretPw, <<"n">>, ProfileA),
      Form(<<"b", "@">>, ShortPw, ShortPw, <<"n">>, ProfileA),
      Form(<<"c", "@">>, SecretPw, ShortPw, <<"n">>, ProfileA),
      Form(<<"d", "@">>, SecretPw, SecretPw, <<" ">>, ProfileA) }

\* ?location= values of /browse-roommates
LocationInputs == {<<>>, <<" ", "B">>, <<"_">>}

\* ?min_budget= and ?max_budget= values: missing, or a number
BoundInputs == {None, Some(0), Some(1), Some(2)}

\* the login forms that are submitted: the right password for every address
\* above, a wrong password, and an address nobody registers
LoginForms ==
    {<<e, SecretPw>> : e \in EmailInputs} \cup {<<(<<"a", "@">>), ShortPw>>}

(* ----------------------------- requests ------------------------------- *)

Page(name) == [template |-> name]

\* the tables as db.create_all() leaves them, nobody logged in; the demo rows
\* that create_sample_data adds when the program is run as a script are rows
\* like any other and are not part of the initial state
Init ==
    /\ User = <<>>
    /\ Listing = <<>>
    /\ session = None
    /\ response = NoResponse
    /\ threads = [w \in Workers |-> IdleFrame]
    /\ user1 = None
    /\ user2 = None
    /\ pc = "idle"
    /\ result = None

\* POST /register
Register(form) ==
    LET email == Lower(Strip(form.email))
        password == form.password
        confirm_password == form.confirm_password
        name  == Strip(form.name)
        profile == form.profile
        errors ==
            \/ email = <<>> \/ "@" \notin Range(email)
            \/ Len(password) < 6
            \/ password # confirm_password
            \/ name = <<>>
            \/ first_by_email(email) # None
    IN  /\ Len(User) < MaxUsers
        /\ IF errors
           THEN /\ response' = Page("register.html")
                /\ UNCHANGED User
           ELSE /\ User' = Append(User,
                       [id |-> Len(User) + 1,
                        email |-> email,
                        password_hash |-> generate_password_hash(password),
                        budget |-> profile.budget,
                        preferred_locations |-> Strip(profile.preferred_locations),
                        lifestyle |-> Strip(profile.lifestyle),
                        created_at |-> Len(User) + 1])
                /\ response' = Page("redirect:login")
        /\ UNCHANGED <<Listing, session, threads, user1, user2, pc, result>>

\* POST /login
Login(email_in, password) ==
    LET email == Lower(Strip(email_in))
        user  == first_by_email(email)
    IN  /\ IF user # None /\ check_password(user[1], password)
           THEN /\ session' = Some(user[1].id)
                /\ response' = Page("redirect:dashboard")
           ELSE /\ response' = Page("login.html")
                /\ UNCHANGED session
        /\ UNCHANGED <<User, Listing, threads, user1, user2, pc, result>>

\* GET /logout
Logout ==
    /\ session' = None
    /\ response' = Page("redirect:home")
    /\ UNCHANGED <<User, Listing, threads, user1, user2, pc, result>>

\* GET /browse-roommates
BrowseRoommates(location_in, min_budget, max_budget) ==
    LET location     == Strip(location_in)
        current_user == get_current_user
        users        == browse_query(current_user, location, min_budget, max_budget)
    IN  /\ response' =
               [template |-> "browse_roommates.html",
                users |-> [i \in DOMAIN users |-> users[i].id],
                roommates |-> rank(current_user, users),
                filters |-> [location |-> location,
                             min_budget |-> min_budget,
                             max_budget |-> max_budget]]
        /\ UNCHANGED <<User, Listing, session, threads, user1, user2, pc, result>>

Next ==
    \/ \E form \in RegisterForms : Register(form)
    \/ \E form \in LoginForms : Login(form[1], form[2])
    \/ Logout
    \/ \E l \in LocationInputs, lo \in BoundInputs, hi \in BoundInputs :
          BrowseRoommates(l, lo, hi)

Spec == Init /\ [][Next]_vars

(* --------------------------- the demo rows ---------------------------- *)

\* a row of the user table as create_sample_data and register build it
UserRow(id, email, profile) ==
    [id |-> id,
     email |-> email,
     password_hash |-> generate_password_hash(SecretPw),
     budget |-> profile.budget,
     preferred_locations |-> Strip(profile.preferred_locations),
     lifestyle |-> Strip(profile.lifestyle),
     created_at |-> id]

\* sample_users, shortened to three rows
SampleUsers ==
    << UserRow(1, <<"a", "@">>, ProfileA),
       UserRow(2, <<"b", "@">>, ProfileB),
       UserRow(3, <<"c", "@">>, ProfileC) >>

\* a row of the listing table; the columns no request below reads (room
\* type, description, images, amenities, dates) are left out
ListingRow(id, user_id, title, location, rent) ==
    [id |-> id, user_id |-> user_id, title |-> title,
     location |-> location, rent |-> rent]

\* sample_listings, shortened to two rows: user_index 0 and user_index 1
SampleListings ==
    << ListingRow(1, 1, <<"t">>, <<"a">>, 1),
       ListingRow(2, 2, <<"t">>, <<"b">>, 1) >>

\* the program run as a script: db.create_all() and create_sample_data() on
\* empty tables, nobody logged in, every worker idle
ScriptInit ==
    /\ User = SampleUsers
    /\ Listing = SampleListings
    /\ session = None
    /\ response = NoResponse
    /\ threads = [w \in Workers |-> IdleFrame]
    /\ user1 = None
    /\ user2 = None
    /\ pc = "idle"
    /\ result = None

(* ------------------------- requests: listings ------------------------- *)

\* a response that carries a flash() message
Flashed(name, message) == [template |-> name, flash |-> message]

\* what login_required answers when the session has no user_id
LoginRequired == Flashed("redirect:login", "Please log in to access this page.")

\* Listing.query.get(id)
listing_get(id) ==
    LET hits == {i \in DOMAIN Listing : Listing[i].id = id}
    IN  IF hits = {} THEN None ELSE Some(Listing[CHOOSE i \in hits : TRUE])

\* the integer primary key of the next row: one more than the largest in use
next_listing_id ==
    IF Listing = <<>> THEN 1
    ELSE 1 + (CHOOSE m \in {Listing[i].id : i \in DOMAIN Listing} :
                 \A i \in DOMAIN Listing : Listing[i].id <= m)

\* the forms posted to /post-listing: a complete one, a blank title, a rent of 0
ListingForms ==
    { [title |-> <<"t">>, location |-> <<" ", "a">>, rent |-> Some(1)],
      [title |-> <<" ">>, location |-> <<"a">>, rent |-> Some(1)],
      [title |-> <<"t">>, location |-> <<"a">>, rent |-> Some(0)] }

\* the listing ids that appear in the URL of /delete-listing/<id>
ListingIds == 1 .. MaxListings

\* GET or POST /post-listing
PostListing(method, form) ==
    LET user     == get_current_user
        title    == Strip(form.title)
        location == Strip(form.location)
        rent     == form.rent
    IN  /\ next_listing_id <= MaxListings
        /\ IF session = None
           THEN /\ response' = LoginRequired
                /\ UNCHANGED Listing
           ELSE IF method = "GET"
           THEN /\ response' = Page("post_listing.html")
                /\ UNCHANGED Listing
           ELSE IF title = <<>> \/ location = <<>> \/ ~Truthy(rent)
           THEN /\ response' = Flashed("post_listing.html",
                                       "Please fill in all required fields.")
                /\ UNCHANGED Listing
           ELSE IF user = None
           THEN /\ response' = Page("500")
                /\ UNCHANGED Listing
           ELSE /\ Listing' = Append(Listing,
                       ListingRow(next_listing_id, user[1].id,
                                  title, location, rent[1]))
                /\ response' = Flashed("redirect:browse_listings",
                                       "Listing created successfully!")
        /\ UNCHANGED <<User, session, threads, user1, user2, pc, result>>

\* delete_listing without the comparison of listing.user_id with user.id
DeleteListing_any_user(listing_id) ==
    LET user    == get_current_user
        listing == listing_get(listing_id)
    IN  /\ IF session = None
           THEN /\ response' = LoginRequired
                /\ UNCHANGED Listing
           ELSE IF listing = None
           THEN /\ response' = Page("404")
                /\ UNCHANGED Listing
           ELSE IF user = None
           THEN /\ response' = Page("500")
                /\ UNCHANGED Listing
           ELSE /\ Listing' = SelectSeq(Listing, LAMBDA l : l.id # listing_id)
                /\ response' = Flashed("redirect:dashboard",
                                       "Listing deleted successfully.")
        /\ UNCHANGED <<User, session, threads, user1, user2, pc, result>>

\* POST /delete-listing/<listing_id>
DeleteListing(listing_id) ==
    LET user    == get_current_user
        listing == listing_get(listing_id)
    IN  /\ IF session = None
           THEN /\ response' = LoginRequired
                /\ UNCHANGED Listing
           ELSE IF listing = None
           THEN /\ response' = Page("404")
                /\ UNCHANGED Listing
           ELSE IF user = None
           THEN /\ response' = Page("500")
                /\ UNCHANGED Listing
           ELSE IF listing[1].user_id # user[1].id
           THEN /\ response' = Flashed("redirect:dashboard",
                                       "You can only delete your own listings.")
                /\ UNCHANGED Listing
           ELSE /\ Listing' = SelectSeq(Listing, LAMBDA l : l.id # listing_id)
                /\ response' = Flashed("redirect:dashboard",
                                       "Listing deleted successfully.")
        /\ UNCHANGED <<User, session, threads, user1, user2, pc, result>>

ListingNext ==
    \/ \E form \in LoginForms : Login(form[1], form[2])
    \/ Logout
    \/ \E method \in {"GET", "POST"}, form \in ListingForms :
          PostListing(method, form)
    \/ \E listing_id \in ListingIds : DeleteListing(listing_id)

ListingSpec == ScriptInit /\ [][ListingNext]_vars

(* ----------------------- concurrent invocations ----------------------- *)

\* the session cookies of the requests served at the same time
CookieInputs == {None, Some(1), Some(2)}

\* ?location= values of the concurrent /browse-roommates requests
ConcLocationInputs == {<<>>, <<"b">>}

\* the <user_id> of the concurrent /roommate/<user_id> requests
RoommateIds == {2, 3}

\* get_current_user() in a request whose session is cookie
current_user_of(cookie) == IF cookie # None THEN query_get(cookie[1]) ELSE None

\* what browse_roommates hands to render_template
browse_response(users, roommates, location, min_budget, max_budget) ==
    [template |-> "browse_roommates.html",
     users |-> [i \in DOMAIN users |-> users[i].id],
     roommates |-> roommates,
     filters |-> [location |-> location,
                  min_budget |-> min_budget,
                  max_budget |-> max_budget]]

\* a worker enters browse_roommates and reads the request arguments
BrowseEnter(w, cookie, location_in, min_budget, max_budget) ==
    /\ threads[w].pc = "idle"
    /\ threads' = [threads EXCEPT ![w] =
           [IdleFrame EXCEPT !.pc = "query",
                             !.session = cookie,
                             !.location = Strip(location_in),
                             !.min_budget = min_budget,
                             !.max_budget = max_budget]]
    /\ UNCHANGED <<User, Listing, session, response, user1, user2, pc, result>>

\* get_current_user() and the query, up to users = query....all()
BrowseQuery(w) ==
    LET t == threads[w]
        current_user == current_user_of(t.session)
    IN  /\ t.pc = "query"
        /\ threads' = [threads EXCEPT ![w] =
               [t EXCEPT !.pc = "loop",
                         !.current_user = current_user,
                         !.users = browse_query(current_user, t.location,
                                                t.min_budget, t.max_budget),
                         !.roommates_with_scores = <<>>]]
        /\ UNCHANGED <<User, Listing, session, response, user1, user2, pc, result>>

\* one pass of the loop with a single list that every invocation appends to
BrowseScore_one_list(w) ==
    LET t == threads[w]
        user == t.users[Len(t.roommates_with_scores) + 1]
        score == IF t.current_user # None
                 THEN calculate_compatibility(t.current_user[1], user)
                 ELSE 0
    IN  /\ t.pc = "loop"
        /\ Len(t.roommates_with_scores) < Len(t.users)
        /\ threads' = [v \in Workers |->
               IF v = w \/ threads[v].pc = "loop"
               THEN [threads[v] EXCEPT !.roommates_with_scores =
                        Append(@, [user |-> user.id, score |-> score])]
               ELSE threads[v]]
        /\ UNCHANGED <<User, Listing, session, response, user1, user2, pc, result>>

\* one pass of the loop: the next user is scored and appended to the list of
\* this invocation
BrowseScore(w) ==
    LET t == threads[w]
        user == t.users[Len(t.roommates_with_scores) + 1]
        score == IF t.current_user # None
                 THEN calculate_compatibility(t.current_user[1], user)
                 ELSE 0
    IN  /\ t.pc = "loop"
        /\ Len(t.roommates_with_scores) < Len(t.users)
        /\ threads' = [threads EXCEPT ![w] =
               [t EXCEPT !.roommates_with_scores =
                   Append(@, [user |-> user.id, score |-> score])]]
        /\ UNCHANGED <<User, Listing, session, response, user1, user2, pc, result>>

\* the loop is over: the sort when logged in, and the response
BrowseSort(w) ==
    LET t == threads[w]
        sorted == IF t.current_user # None
                  THEN sort_by_score_desc(t.roommates_with_scores)
                  ELSE t.roommates_with_scores
    IN  /\ t.pc = "loop"
        /\ Len(t.roommates_with_scores) >= Len(t.users)
        /\ threads' = [threads EXCEPT ![w] =
               [t EXCEPT !.pc = "return",
                         !.roommates_with_scores = sorted,
                         !.ret = browse_response(t.users, sorted, t.location,
                                                 t.min_budget, t.max_budget)]]
        /\ UNCHANGED <<User, Listing, session, response, user1, user2, pc, result>>

\* what view_roommate hands to render_template
view_response(cookie, user_id) ==
    LET user == query_get(user_id)
        current_user == current_user_of(cookie)
    IN  IF user = None THEN Page("404")
        ELSE [template |-> "view_roommate.html",
              roommate |-> user_id,
              score |-> IF current_user # None /\ current_user[1].id # user_id
                        THEN calculate_compatibility(current_user[1], user[1])
                        ELSE 0]

\* GET /roommate/<user_id> served by a worker: one score invocation
ViewRoommate(w, cookie, user_id) ==
    /\ threads[w].pc = "idle"
    /\ threads' = [threads EXCEPT ![w] =
           [IdleFrame EXCEPT !.pc = "return",
                             !.session = cookie,
                             !.ret = view_response(cookie, user_id)]]
    /\ UNCHANGED <<User, Listing, session, response, user1, user2, pc, result>>

ConcNext ==
    \/ \E w \in Workers, cookie \in CookieInputs, l \in ConcLocationInputs :
          BrowseEnter(w, cookie, l, None, None)
    \/ \E w \in Workers : BrowseQuery(w)
    \/ \E w \in Workers : BrowseScore(w)
    \/ \E w \in Workers : BrowseSort(w)
    \/ \E w \in Workers, cookie \in CookieInputs, user_id \in RoommateIds :
          ViewRoommate(w, cookie, user_id)

ConcSpec == ScriptInit /\ [][ConcNext]_vars

(* ------------------------ claims on the scorer ------------------------ *)

\* spec 7: a budget is absent or a non-negative integer
WellFormed(u) == u.budget = None \/ u.budget[1] >= 0

\* the profile has a location (a lifestyle tag) that is not an empty segment
HasLocation(u) == \E loc \in locations(u) : loc # <<>>

HasTag(u) == \E tag \in lifestyle(u) : tag # <<>>

TextABC == <<"a", ",", "b", ",", "c">>

TextBCD == <<"b", ",", "c", ",", "d">>

\* C1: the score returned for any two profiles the forms can store (the
\* well-formed ones, and those with a negative budget too) lies in [0, 10].
C1_ScoreInRange ==
    pc = "return" => (0 <= result.ret /\ result.ret <= 100)

\* two different well-formed profiles reach the top of the range
C1_Witness ==
    /\ pc = "return"
    /\ WellFormed(user1) /\ WellFormed(user2)
    /\ user1 # user2
    /\ result.ret = 100

\* C2: a profile with at least one location, a budget (any non-negative
\* integer) and at least one lifestyle tag scores exactly 10.0 with itself.
C2_SelfScoreIsTen ==
    (/\ pc = "return"
     /\ user1 = user2
     /\ HasLocation(user1)
     /\ HasTag(user1)
     /\ user1.budget # None
     /\ user1.budget[1] >= 0)
    => result.ret = 100

\* C3: when both profiles have a budget and the budgets are equal (both 0
\* included), the budget component is exactly 3.0.
C3_EqualBudgetsGiveThree ==
    (/\ pc = "return"
     /\ user1.budget # None /\ user2.budget # None
     /\ user1.budget[1] >= 0
     /\ user1.budget[1] = user2.budget[1])
    => REq(result.budget_score, R(3, 1))

\* C8: an empty segment of the stored text is never a member of the location
\* or lifestyle sets the scorer uses, so it never counts as shared.
C8_NoEmptySegment ==
    pc = "return" =>
        <<>> \notin (result.locations1 \cup result.locations2
                     \cup result.lifestyle1 \cup result.lifestyle2)

\* C9: the location component is a function of the size k of the intersection
\* of the scorer's two location sets: 0 for k = 0, 2.5 for k = 1, 5.0 for
\* k >= 2.
C9_LocationBySharedCount ==
    pc = "return" =>
        LET k == Cardinality(result.locations1 \cap result.locations2)
        IN  /\ k = 0 => REq(result.location_score, R(0, 1))
            /\ k = 1 => REq(result.location_score, R(5, 2))
            /\ k >= 2 => REq(result.location_score, R(5, 1))

\* three shared locations still give 5.0
C9_Witness ==
    /\ pc = "return"
    /\ Cardinality(result.locations1 \cap result.locations2) = 3
    /\ REq(result.location_score, R(5, 1))

\* C10: with both lifestyle sets non-empty the lifestyle component is 2.0
\* times |intersection| / |union|; {a,b,c} against {b,c,d} gives 1.0.
C10_LifestyleIsJaccard ==
    (pc = "return" /\ result.lifestyle1 # {} /\ result.lifestyle2 # {}) =>
        /\ REq(result.lifestyle_score,
               R(2 * Cardinality(result.lifestyle1 \cap result.lifestyle2),
                 Cardinality(result.lifestyle1 \cup result.lifestyle2)))
        /\ (user1.lifestyle = TextABC /\ user2.lifestyle = TextBCD)
               => REq(result.lifestyle_score, R(1, 1))

\* {a,b,c} against {b,c,d}: intersection 2, union 4, component 1.0
C10_Witness ==
    /\ pc = "return"
    /\ user1.lifestyle = TextABC /\ user2.lifestyle = TextBCD
    /\ Cardinality(result.lifestyle1 \cap result.lifestyle2) = 2
    /\ Cardinality(result.lifestyle1 \cup result.lifestyle2) = 4
    /\ REq(result.lifestyle_score, R(1, 1))

\* the set the documentation describes: the segments of the stored text,
\* trimmed and case-folded, without the empty ones
NormalizedSet(text) ==
    {Lower(seg) : seg \in Range(StripEach(text))} \ {<<>>}

\* C11: with both budgets present the budget component is
\* max(0, 3 * (1 - d)), d = |budget(a) - budget(b)| / max(budget(a), budget(b))
\* and d = 0 when that maximum is 0; it lies in [0, 3].
C11_BudgetFormula ==
    (/\ pc = "return"
     /\ user1.budget # None /\ user2.budget # None
     /\ user1.budget[1] >= 0 /\ user2.budget[1] >= 0)
    => LET a == user1.budget[1]
           b == user2.budget[1]
           m == Max(a, b)
           expected == IF m = 0 THEN R(3, 1)
                       ELSE RMax(R(0, 1), R(3 * (m - Abs(a - b)), m))
       IN  /\ REq(result.budget_score, expected)
           /\ RLe(R(0, 1), result.budget_score)
           /\ RLe(result.budget_score, R(3, 1))

\* C12: a field that is empty or absent on either side makes its own
\* component 0 and leaves the score to the other two components; with all
\* three empty or absent on both sides the score is 0.0.
C12_EmptyFieldContributesZero ==
    (pc = "return" /\ WellFormed(user1) /\ WellFormed(user2)) =>
        LET noLocation == \/ NormalizedSet(user1.preferred_locations) = {}
                          \/ NormalizedSet(user2.preferred_locations) = {}
            noBudget   == user1.budget = None \/ user2.budget = None
            noTags     == \/ NormalizedSet(user1.lifestyle) = {}
                          \/ NormalizedSet(user2.lifestyle) = {}
        IN  /\ noLocation =>
                /\ REq(result.location_score, R(0, 1))
                /\ REq(result.score,
                       RAdd(result.budget_score, result.lifestyle_score))
            /\ noBudget =>
                /\ REq(result.budget_score, R(0, 1))
                /\ REq(result.score,
                       RAdd(result.location_score, result.lifestyle_score))
            /\ noTags =>
                /\ REq(result.lifestyle_score, R(0, 1))
                /\ REq(result.score,
                       RAdd(result.location_score, result.budget_score))
            /\ (noLocation /\ noBudget /\ noTags) => result.ret = 0

\* C13: the score of (a, b) is the score of (b, a).
C13_Symmetric ==
    pc = "return" => result.ret = calculate_compatibility(user2, user1)

\* two different profiles with all three components above 0
C13_Witness ==
    /\ pc = "return"
    /\ user1.budget # None /\ user2.budget # None
    /\ user1.budget[1] # user2.budget[1]
    /\ user1.preferred_locations # user2.preferred_locations
    /\ user1.lifestyle # user2.lifestyle
    /\ result.location_score.n > 0
    /\ result.budget_score.n > 0
    /\ result.lifestyle_score.n > 0

\* C14: the returned value is the sum of the three components, capped at
\* 10.0, at the nearest tenth; the worked example gives 2.5 + 2.25 + 0.667
\* = 5.417, returned as 5.4.
C14_SumClampRound ==
    pc = "return" =>
        LET sum == RAdd(RAdd(result.location_score, result.budget_score),
                        result.lifestyle_score)
            capped == IF RLe(sum, R(10, 1)) THEN sum ELSE R(10, 1)
        IN  /\ REq(result.score, sum)
            /\ 2 * Abs(result.ret * capped.d - 10 * capped.n) <= capped.d
            /\ (user1 = ExampleA /\ user2 = ExampleB) =>
                   /\ REq(result.location_score, R(5, 2))
                   /\ REq(result.budget_score, R(9, 4))
                   /\ REq(result.lifestyle_score, R(2, 3))
                   /\ result.ret = 54

\* the worked example
C14_Witness ==
    /\ pc = "return"
    /\ user1 = ExampleA /\ user2 = ExampleB
    /\ REq(result.score, R(65, 12))
    /\ result.ret = 54

(* ------------------------ claims on the ranker ------------------------ *)

IsBrowse == response.template = "browse_roommates.html"

\* position of a user id in a sequence of distinct ids
Pos(ids, id) == CHOOSE i \in DOMAIN ids : ids[i] = id

\* sub occurs in text as a contiguous run of characters
Contains(text, sub) ==
    \E i \in 0 .. (Len(text) - Len(sub)) : SubSeq(text, i + 1, i + Len(sub)) = sub

\* C4: with a reference profile the returned pairs are in non-increasing
\* score order, and candidates with equal scores keep the relative order in
\* which the query supplied them.
C4_StableDescending ==
    (IsBrowse /\ session # None) =>
        /\ {response.roommates[i].user : i \in DOMAIN response.roommates}
               = Range(response.users)
        /\ \A i, j \in DOMAIN response.roommates :
               i < j =>
                   /\ response.roommates[i].score >= response.roommates[j].score
                   /\ response.roommates[i].score = response.roommates[j].score
                          => Pos(response.users, response.roommates[i].user)
                                 < Pos(response.users, response.roommates[j].user)

\* a logged-in viewer gets two candidates with the same positive score
C4_Witness ==
    /\ IsBrowse /\ session # None
    /\ Len(response.roommates) = 2
    /\ response.roommates[1].score = response.roommates[2].score
    /\ response.roommates[1].score > 0

\* C5: the result holds exactly the candidates, other than the reference,
\* that satisfy every supplied constraint; only a missing or empty value
\* imposes no filter, every supplied number does.
C5_ExactlyTheMatching ==
    IsBrowse =>
        {response.roommates[i].user : i \in DOMAIN response.roommates}
        = {User[k].id : k \in
             {k \in DOMAIN User :
                /\ session # None => User[k].id # session[1]
                /\ response.filters.min_budget # None =>
                       (/\ User[k].budget # None
                        /\ User[k].budget[1] >= response.filters.min_budget[1])
                /\ response.filters.max_budget # None =>
                       (/\ User[k].budget # None
                        /\ User[k].budget[1] <= response.filters.max_budget[1])
                /\ response.filters.location # <<>> =>
                       Contains(Lower(User[k].preferred_locations),
                                Lower(response.filters.location))}}

\* C6: with a reference profile no element of the result, and no candidate
\* handed to the scorer, has the identity of the reference.
C6_ReferenceExcluded ==
    (IsBrowse /\ session # None) =>
        /\ \A i \in DOMAIN response.roommates :
               response.roommates[i].user # session[1]
        /\ session[1] \notin Range(response.users)

\* a logged-in viewer browses without any filter and gets all the others
C6_Witness ==
    /\ IsBrowse /\ session # None
    /\ response.filters.location = <<>>
    /\ response.filters.min_budget = None
    /\ response.filters.max_budget = None
    /\ Len(User) >= 3
    /\ Len(response.roommates) = Len(User) - 1

\* C7: without a reference every surviving candidate is returned with score
\* 0, in the order in which the query supplied them.
C7_AnonymousKeepsOrder ==
    (IsBrowse /\ session = None) =>
        /\ Len(response.roommates) = Len(response.users)
        /\ \A i \in DOMAIN response.roommates :
               /\ response.roommates[i].user = response.users[i]
               /\ response.roommates[i].score = 0

\* an anonymous viewer gets several candidates, the newest first
C7_Witness ==
    /\ IsBrowse /\ session = None
    /\ Len(response.roommates) >= 2
    /\ response.roommates[1].user > response.roommates[2].user

\* C15: for a non-empty location constraint and no budget bound, a candidate
\* is in the result if and only if the constraint text occurs, compared
\* case-insensitively, as a contiguous substring of the candidate's stored
\* location text.
C15_LiteralSubstring ==
    (/\ IsBrowse
     /\ response.filters.location # <<>>
     /\ response.filters.min_budget = None
     /\ response.filters.max_budget = None)
    => \A k \in DOMAIN User :
           (session # None => User[k].id # session[1]) =>
               (User[k].id \in Range(response.users)
                <=> Contains(Lower(User[k].preferred_locations),
                             Lower(response.filters.location)))

\* what the browse invocation of a finished worker returns when it runs
\* alone, from its request arguments and the user table
C16_Alone(t) ==
    LET current_user == current_user_of(t.session)
        users == browse_query(current_user, t.location,
                              t.min_budget, t.max_budget)
    IN  browse_response(users, rank(current_user, users), t.location,
                        t.min_budget, t.max_budget)

\* C16: under any interleaving of concurrent score and rank invocations no
\* step changes the user table (no profile is modified, nothing is written
\* back), and every finished invocation has returned what it returns alone.
C16_Independent ==
    [][/\ User' = User
       /\ Listing' = Listing
       /\ \A w \in Workers :
              threads'[w].pc = "return" =>
                  IF threads'[w].ret.template = "browse_roommates.html"
                  THEN threads'[w].ret = C16_Alone(threads'[w])
                  ELSE \E user_id \in RoommateIds :
                           threads'[w].ret
                           = view_response(threads'[w].session, user_id)]_vars

\* a ranking of two candidates has finished for one logged-in user while
\* another user's ranking is between its two loop passes
C16_Witness ==
    \E w \in Workers, v \in Workers :
        /\ w # v
        /\ threads[w].pc = "return"
        /\ threads[w].ret.template = "browse_roommates.html"
        /\ Len(threads[w].ret.roommates) = 2
        /\ threads[w].ret.roommates[1].score > threads[w].ret.roommates[2].score
        /\ threads[v].pc = "loop"
        /\ threads[v].session # None
        /\ threads[v].session # threads[w].session
        /\ Len(threads[v].users) = 2
        /\ Len(threads[v].roommates_with_scores) = 1

\* C17: in every step of login, logout, post-listing and delete-listing
\* requests a listing row disappears only in a successful delete-listing
\* request whose session holds the id of the row's owner; a step made with
\* no logged-in user, and a delete refused for a different user, leave the
\* listing table unchanged.
C17_OnlyOwnerDeletes ==
    [][/\ \A i \in DOMAIN Listing :
              Listing[i] \notin Range(Listing') =>
                  /\ session # None
                  /\ session[1] = Listing[i].user_id
                  /\ session' = session
                  /\ response' = Flashed("redirect:dashboard",
                                         "Listing deleted successfully.")
       /\ (\/ session = None
           \/ response' = Flashed("redirect:dashboard",
                                  "You can only delete your own listings."))
          => Listing' = Listing]_vars

\* the owner of the first demo listing has deleted it, a listing posted
\* after the demo rows exists, and a listing of another user is still there
C17_Witness ==
    /\ session # None
    /\ response = Flashed("redirect:dashboard", "Listing deleted successfully.")
    /\ \A i \in DOMAIN Listing : Listing[i].id # 1
    /\ \E i \in DOMAIN Listing : Listing[i].user_id # session[1]
    /\ \E i \in DOMAIN Listing : Listing[i].id > 2

====
